---- MODULE Spec2Model ----
(***************************************************************************)
(* Model of the google-calendar recipe's data pipeline (getData.ts):      *)
(* the week window, the iCal feed adapter, the Google Calendar API        *)
(* adapter, source selection, the unstable_cache wrapper and its uncached *)
(* fallback.                                                               *)
(*                                                                         *)
(* Instants are integers: milliseconds counted from 2024-02-01T00:00:00   *)
(* (a Thursday) instead of 1970, so that every instant of the modelled    *)
(* weeks fits TLC's 32-bit integers.  The process runs with TZ=UTC, the   *)
(* single local-time frame the pipeline assumes.  Strings are strings.    *)
(***************************************************************************)
EXTENDS Integers, Sequences, FiniteSets, TLC

VARIABLES
    now,        \* wall clock (new Date()), ms
    env,        \* process.env: [icalUrl, apiKey], fixed for a run
    cache,      \* unstable_cache store: signature -> NoEntry or [value, storedAt]
    pc,         \* per caller: position inside getData
    req,        \* per caller: the params of its getData call
    result,     \* per caller: what its getData call returned (or threw)
    invoked,    \* per caller: adapters invoked by its current call, with results
    calls,      \* number of getData calls started so far
    ticks,      \* number of clock steps taken so far
    wb,         \* last value returned by a direct getWeekBounds() call
    feed,       \* upstream iCal response handed to fetchICalEvents
    icalEvents, \* what fetchICalEvents returned for feed
    props,      \* the props GoogleCalendar is rendered with: [events, startDate]
    placed,     \* the event boxes GoogleCalendar placed, per day column
    request,    \* the request the GET route handler is serving
    served      \* the Response the GET route handler returned

layoutVars == <<props, placed>>
routeVars == <<request, served>>

vars == <<now, env, cache, pc, req, result, invoked, calls, ticks, wb, feed, icalEvents,
          layoutVars, routeVars>>

None == "none"

-----------------------------------------------------------------------------
(* String primitives: String.prototype.indexOf / split / trim, and the     *)
(* regular expressions of the parser.                                      *)

Ch(s, i) == SubSeq(s, i, i)

Least(S) == CHOOSE i \in S : \A j \in S : i <= j

\* position (1-based) of the first occurrence of pat in s at or after from; 0 if none
IndexFrom(s, pat, from) ==
    LET hits == {i \in from..(Len(s) - Len(pat) + 1) : SubSeq(s, i, i + Len(pat) - 1) = pat}
    IN  IF hits = {} THEN 0 ELSE Least(hits)

IndexOf(s, pat) == IndexFrom(s, pat, 1)

RECURSIVE Split(_, _)
\* s.split(sep)
Split(s, sep) ==
    LET i == IndexOf(s, sep) IN
    IF i = 0 THEN <<s>>
    ELSE <<SubSeq(s, 1, i - 1)>> \o Split(SubSeq(s, i + Len(sep), Len(s)), sep)

IsSpace(c) == c \in {" ", "\t", "\r", "\n"}

RECURSIVE TrimLeft(_)
TrimLeft(s) ==
    IF Len(s) > 0 /\ IsSpace(Ch(s, 1)) THEN TrimLeft(SubSeq(s, 2, Len(s))) ELSE s

RECURSIVE TrimRight(_)
TrimRight(s) ==
    IF Len(s) > 0 /\ IsSpace(Ch(s, Len(s))) THEN TrimRight(SubSeq(s, 1, Len(s) - 1)) ELSE s

Trim(s) == TrimRight(TrimLeft(s))

\* "." of a JavaScript regular expression: anything but a line terminator
IsDot(c) == c \notin {"\n", "\r"}

\* last position of the run of "." characters of s that starts at from
LineEnd(s, from) ==
    LET stops == {i \in from..Len(s) : ~IsDot(Ch(s, i))}
    IN  IF stops = {} THEN Len(s) ELSE Least(stops) - 1

RECURSIVE MatchFrom(_, _, _, _)
\* s.match(/KEY[seps](.+)/): the capture group of the leftmost match, or None
MatchFrom(s, key, seps, from) ==
    LET p == IndexFrom(s, key, from)
        q == p + Len(key)          \* position of the separator
    IN  IF p = 0 THEN None
        ELSE IF q + 1 <= Len(s) /\ Ch(s, q) \in seps /\ IsDot(Ch(s, q + 1))
             THEN SubSeq(s, q + 1, LineEnd(s, q + 1))
             ELSE MatchFrom(s, key, seps, p + 1)

Match(s, key, seps) == MatchFrom(s, key, seps, 1)

\* s.substring(a, b) with 0-based a (inclusive) and b (exclusive), clamped to s
Substring(s, a, b) ==
    LET hi == IF b > Len(s) THEN Len(s) ELSE b IN
    IF a >= hi THEN "" ELSE SubSeq(s, a + 1, hi)

\* dateStr.replace(/^[^:]*:/, "")
StripToColon(s) ==
    LET i == IndexOf(s, ":") IN IF i = 0 THEN s ELSE SubSeq(s, i + 1, Len(s))

Digits == <<"0", "1", "2", "3", "4", "5", "6", "7", "8", "9">>

IsDigit(c) == \E d \in 1..10 : Digits[d] = c

DigitVal(c) == (CHOOSE d \in 1..10 : Digits[d] = c) - 1

RECURSIVE AllDigits(_)
AllDigits(s) == Len(s) = 0 \/ (IsDigit(Ch(s, 1)) /\ AllDigits(SubSeq(s, 2, Len(s))))

RECURSIVE ToNum(_)
\* Number("0123") for a string of digits
ToNum(s) ==
    IF Len(s) = 0 THEN 0
    ELSE 10 * ToNum(SubSeq(s, 1, Len(s) - 1)) + DigitVal(Ch(s, Len(s)))

Pad2(n) == Digits[((n \div 10) % 10) + 1] \o Digits[(n % 10) + 1]

Pad3(n) == Digits[((n \div 100) % 10) + 1] \o Pad2(n % 100)

Pad4(n) == Digits[((n \div 1000) % 10) + 1] \o Pad3(n % 1000)

-----------------------------------------------------------------------------
(* The Date object.  The Date methods below take the time value (ms) of a  *)
(* valid Date; a Date made from a string is ValidDate(ms) or InvalidDate.  *)

ValidDate(t) == [valid |-> TRUE, time |-> t]
InvalidDate == [valid |-> FALSE]

MsPerSecond == 1000
MsPerMinute == 60 * MsPerSecond
MsPerHour == 60 * MsPerMinute
MsPerDay == 24 * MsPerHour

ModelYear == 2024
\* weekday (0 = Sunday) of the model's day 0, 2024-02-01
EpochWeekday == 4
\* days of January 2024, the month before the model's day 0
DaysInJan == 31
DaysInFeb == 29

\* day number of an instant, and its time within the day
DayOf(t) == t \div MsPerDay
TimeOf(t) == t % MsPerDay

\* day number of the first day of the month a day lies in
\* (January, February, March 2024)
MonthStart(d) ==
    IF d < 0 THEN 0 - DaysInJan ELSE IF d < DaysInFeb THEN 0 ELSE DaysInFeb

MonthOf(d) == IF d < 0 THEN 1 ELSE IF d < DaysInFeb THEN 2 ELSE 3

\* day number of the first day of month m of 2024 (m in 1..3)
MonthStartOf(m) == IF m = 1 THEN 0 - DaysInJan ELSE IF m = 2 THEN 0 ELSE DaysInFeb

MonthLength(m) == IF m = 2 THEN DaysInFeb ELSE DaysInJan

\* Date.prototype.getDay / getDate / getHours / getMinutes
GetDay(t) == (DayOf(t) + EpochWeekday) % 7
GetDate(t) == DayOf(t) - MonthStart(DayOf(t)) + 1
GetHours(t) == TimeOf(t) \div MsPerHour
GetMinutes(t) == (TimeOf(t) % MsPerHour) \div MsPerMinute
GetSeconds(t) == (TimeOf(t) % MsPerMinute) \div MsPerSecond
GetMilliseconds(t) == TimeOf(t) % MsPerSecond

\* Date.prototype.setDate(n): day n of the date's month, n outside the month
\* rolling over into the neighbouring months; the time of day is kept
SetDate(t, n) == (MonthStart(DayOf(t)) + n - 1) * MsPerDay + TimeOf(t)

\* Date.prototype.setHours(h, m, s, ms)
SetHours(t, h, m, s, ms) ==
    DayOf(t) * MsPerDay + h * MsPerHour + m * MsPerMinute + s * MsPerSecond + ms

\* Date.prototype.toISOString(): "YYYY-MM-DDTHH:mm:ss.sssZ"
ToISOString(t) ==
    Pad4(ModelYear) \o "-" \o Pad2(MonthOf(DayOf(t))) \o "-" \o Pad2(GetDate(t))
    \o "T" \o Pad2(GetHours(t)) \o ":" \o Pad2(GetMinutes(t)) \o ":"
    \o Pad2(GetSeconds(t)) \o "." \o Pad3(GetMilliseconds(t)) \o "Z"

\* the date part "YYYY-MM-DD" of a date string names a day of Jan..Mar 2024
ValidDatePart(s) ==
    /\ Len(s) >= 10
    /\ AllDigits(SubSeq(s, 1, 4)) /\ Ch(s, 5) = "-"
    /\ AllDigits(SubSeq(s, 6, 7)) /\ Ch(s, 8) = "-"
    /\ AllDigits(SubSeq(s, 9, 10))
    /\ ToNum(SubSeq(s, 1, 4)) = ModelYear
    /\ ToNum(SubSeq(s, 6, 7)) \in 1..3
    /\ ToNum(SubSeq(s, 9, 10)) \in 1..MonthLength(ToNum(SubSeq(s, 6, 7)))

DatePartDay(s) == MonthStartOf(ToNum(SubSeq(s, 6, 7))) + ToNum(SubSeq(s, 9, 10)) - 1

\* the time part "THH:mm:ss", optionally followed by ".sss" and by "Z"
ValidTimePart(s) ==
    /\ Len(s) >= 19
    /\ Ch(s, 11) = "T"
    /\ AllDigits(SubSeq(s, 12, 13)) /\ Ch(s, 14) = ":"
    /\ AllDigits(SubSeq(s, 15, 16)) /\ Ch(s, 17) = ":"
    /\ AllDigits(SubSeq(s, 18, 19))
    /\ ToNum(SubSeq(s, 12, 13)) < 24
    /\ ToNum(SubSeq(s, 15, 16)) < 60
    /\ ToNum(SubSeq(s, 18, 19)) < 60
    /\ LET rest == SubSeq(s, 20, Len(s)) IN
       \/ rest \in {"", "Z"}
       \/ /\ Len(rest) \in {4, 5}
          /\ Ch(rest, 1) = "." /\ AllDigits(SubSeq(rest, 2, 4))
          /\ SubSeq(rest, 5, Len(rest)) \in {"", "Z"}

TimePartMs(s) ==
    ToNum(SubSeq(s, 12, 13)) * MsPerHour + ToNum(SubSeq(s, 15, 16)) * MsPerMinute
    + ToNum(SubSeq(s, 18, 19)) * MsPerSecond
    + (IF Len(s) >= 23 /\ Ch(s, 20) = "." THEN ToNum(SubSeq(s, 21, 23)) ELSE 0)

\* new Date(string): a date-only form is UTC midnight, a date-time form without
\* offset is local time (the same instant under TZ=UTC); anything else is
\* Invalid Date
DateParse(s) ==
    IF ~ValidDatePart(s) THEN InvalidDate
    ELSE IF Len(s) = 10 THEN ValidDate(DatePartDay(s) * MsPerDay)
    ELSE IF ValidTimePart(s) THEN ValidDate(DatePartDay(s) * MsPerDay + TimePartMs(s))
    ELSE InvalidDate

\* a >= b and a <= b on Date objects: false whenever either is Invalid Date
DateGeq(a, b) == a.valid /\ b.valid /\ a.time >= b.time
DateLeq(a, b) == a.valid /\ b.valid /\ a.time <= b.time

-----------------------------------------------------------------------------
(* getWeekBounds                                                           *)

\* the variant that forgets Sunday (day 0) belongs to the preceding Monday
getWeekBoundsNoSunday(t) ==
    LET diff == GetDate(t) - GetDay(t) + 1
        weekStart == SetHours(SetDate(t, diff), 0, 0, 0, 0)
        weekEnd == SetHours(SetDate(weekStart, GetDate(weekStart) + 7), 23, 59, 59, 999)
    IN  [timeMin |-> ToISOString(weekStart), timeMax |-> ToISOString(weekEnd)]

getWeekBounds(t) ==
    LET day == GetDay(t)
        diff == GetDate(t) - day + (IF day = 0 THEN -6 ELSE 1)
        weekStart == SetHours(SetDate(t, diff), 0, 0, 0, 0)
        weekEnd == SetHours(SetDate(weekStart, GetDate(weekStart) + 7), 23, 59, 59, 999)
    IN  [timeMin |-> ToISOString(weekStart), timeMax |-> ToISOString(weekEnd)]

-----------------------------------------------------------------------------
(* Values shared by the adapters.  A function's completion is Return(v),  *)
(* ReturnNull (it returned null) or Throw(e); an absent string is None.    *)

Return(v) == [threw |-> FALSE, null |-> FALSE, value |-> v]
ReturnNull == [threw |-> FALSE, null |-> TRUE]
Throw(e) == [threw |-> TRUE, null |-> FALSE, error |-> e]

\* a || b on strings and absent values
OrElse(a, b) == IF a \in {None, ""} THEN b ELSE a

RECURSIVE NumStr(_)
\* String(n) for n >= 0
NumStr(n) == IF n < 10 THEN Digits[n + 1] ELSE NumStr(n \div 10) \o Digits[(n % 10) + 1]

-----------------------------------------------------------------------------
(* fetchICalEvents                                                         *)

\* the text of a feed: a VEVENT block per record, a line per present property
Line(name, v) == IF v = None THEN "" ELSE name \o v \o "\r\n"

RenderBlock(b) ==
    "BEGIN:VEVENT\r\n" \o Line("UID:", b.uid) \o Line("SUMMARY:", b.summary)
    \o Line("DTSTART", b.dtstart) \o Line("DTEND", b.dtend) \o "END:VEVENT\r\n"

RECURSIVE RenderBlocks(_)
RenderBlocks(bs) ==
    IF bs = <<>> THEN "" ELSE RenderBlock(Head(bs)) \o RenderBlocks(Tail(bs))

RenderFeed(bs) ==
    "BEGIN:VCALENDAR\r\nVERSION:2.0\r\n" \o RenderBlocks(bs) \o "END:VCALENDAR\r\n"

parseICalDate(dateStr) ==
    LET s == StripToColon(dateStr)
        year == Substring(s, 0, 4)
        month == Substring(s, 4, 6)
        day == Substring(s, 6, 8)
    IN  IF Len(s) = 8 THEN year \o "-" \o month \o "-" \o day
        ELSE year \o "-" \o month \o "-" \o day \o "T" \o Substring(s, 9, 11)
             \o ":" \o Substring(s, 11, 13) \o ":" \o Substring(s, 13, 15)

\* one iteration of the loop over eventBlocks: the events block i adds (none
\* when it is skipped); i is the loop index
ParseBlock(block, i) ==
    LET endIndex == IndexOf(block, "END:VEVENT")
        eventData == SubSeq(block, 1, endIndex - 1)
        summaryMatch == Match(eventData, "SUMMARY", {":"})
        startMatch == Match(eventData, "DTSTART", {";", ":"})
        endMatch == Match(eventData, "DTEND", {";", ":"})
        uidMatch == Match(eventData, "UID", {":"})
    IN  IF endIndex = 0 \/ startMatch = None \/ endMatch = None THEN <<>>
        ELSE <<[id |-> IF uidMatch # None THEN Trim(uidMatch) ELSE "event-" \o NumStr(i),
                title |-> IF summaryMatch # None THEN Trim(summaryMatch) ELSE "Untitled Event",
                start |-> parseICalDate(Trim(startMatch)),
                end |-> parseICalDate(Trim(endMatch)),
                allDay |-> Len(Trim(startMatch)) = 8]>>

RECURSIVE ParseLoopBreak(_, _, _)
\* the variant that stops at the first skipped block (break for continue)
ParseLoopBreak(blocks, i, events) ==
    IF i >= Len(blocks) THEN events
    ELSE LET more == ParseBlock(blocks[i + 1], i) IN
         IF more = <<>> THEN events ELSE ParseLoopBreak(blocks, i + 1, events \o more)

RECURSIVE ParseLoop(_, _, _)
\* for (let i = 1; i < eventBlocks.length; i++): eventBlocks[i] is blocks[i + 1]
ParseLoop(blocks, i, events) ==
    IF i >= Len(blocks) THEN events
    ELSE ParseLoop(blocks, i + 1, events \o ParseBlock(blocks[i + 1], i))

ParseICal(icalData) == ParseLoop(Split(icalData, "BEGIN:VEVENT"), 1, <<>>)

\* the try block: a response is [kind, body], kind "ok" or the way the fetch
\* failed: "status" (not ok), "network" (fetch rejects), "abort" (prerender)
ICalBody(response) ==
    IF response.kind = "ok" THEN Return(ParseICal(response.body))
    ELSE Throw(response.kind)

\* the variant without the catch block
fetchICalEventsNoCatch(response) == ICalBody(response)

\* try { ... } catch { return null }
fetchICalEvents(response) ==
    LET r == ICalBody(response) IN IF r.threw THEN ReturnNull ELSE r

-----------------------------------------------------------------------------
(* fetchCalendarEvents                                                     *)

\* data.items.map(...): an item whose start or end is missing raises a TypeError
ItemBroken(item) == "start" \notin DOMAIN item \/ "end" \notin DOMAIN item

MapItem(event) ==
    [id |-> event.id,
     title |-> OrElse(event.summary, "Untitled Event"),
     start |-> OrElse(event.start.dateTime, OrElse(event.start.date, "")),
     end |-> OrElse(event.end.dateTime, OrElse(event.end.date, "")),
     allDay |-> event.start.date \notin {None, ""}]

\* a response is [kind, data]: kind "ok" (data is the parsed JSON body),
\* "status", "network", "abort", or "badjson" (response.json() rejects)
ApiBody(response) ==
    IF response.kind # "ok" THEN Throw(response.kind)
    ELSE IF "items" \notin DOMAIN response.data \/ response.data.items = <<>>
         THEN Return(<<>>)
    ELSE IF \E k \in 1..Len(response.data.items) : ItemBroken(response.data.items[k])
         THEN Throw("TypeError")
    ELSE Return([k \in 1..Len(response.data.items) |-> MapItem(response.data.items[k])])

fetchCalendarEvents(response) ==
    LET r == ApiBody(response) IN IF r.threw THEN ReturnNull ELSE r

-----------------------------------------------------------------------------
(* Source selection and the two paths of getData                           *)

FeedUrl == "https://calendar.example/basic.ics"
ApiKey == "key-1"

\* params?.field
Field(params, f) == IF f \in DOMAIN params THEN params[f] ELSE None

\* params?.icalUrl || process.env.GOOGLE_CALENDAR_ICAL_URL
ResolveICalUrl(params, e) == OrElse(Field(params, "icalUrl"), e.icalUrl)

\* params?.apiKey || process.env.GOOGLE_CALENDAR_API_KEY || ""
ResolveApiKey(params, e) == OrElse(Field(params, "apiKey"), OrElse(e.apiKey, ""))

\* the variant that prefers the API key
SelectKeyFirst(icalUrl, apiKey) ==
    IF apiKey \notin {None, ""} THEN "api"
    ELSE IF icalUrl \notin {None, ""} THEN "ical"
    ELSE "none"

\* if (icalUrl) ... else if (apiKey) ... else ...
Select(icalUrl, apiKey) ==
    IF icalUrl \notin {None, ""} THEN "ical"
    ELSE IF apiKey \notin {None, ""} THEN "api"
    ELSE "none"

Selected(params, e) == Select(ResolveICalUrl(params, e), ResolveApiKey(params, e))

\* the adapter call of either path: its completion for the upstream response
Adapter(sel, response) ==
    IF sel = "ical" THEN fetchICalEvents(response) ELSE fetchCalendarEvents(response)

\* events.filter(eventStart >= weekStart && eventStart <= weekEnd), at instant t
FilterWeek(events, t) ==
    LET bounds == getWeekBounds(t)
        weekStart == DateParse(bounds.timeMin)
        weekEnd == DateParse(bounds.timeMax)
        Keep(event) == /\ DateGeq(DateParse(event.start), weekStart)
                       /\ DateLeq(DateParse(event.start), weekEnd)
    IN  SelectSeq(events, Keep)

\* the variant that caches a failed fetch as an empty list (events ?? [])
CachedBodyNullAsEmpty(params, e, response, t) ==
    LET sel == Selected(params, e)
        a == IF sel = "none" THEN Return(<<>>) ELSE Adapter(sel, response)
    IN  IF a.threw THEN a
        ELSE Return([events |-> IF a.null THEN <<>> ELSE FilterWeek(a.value, t),
                     startDate |-> getWeekBounds(t).timeMin])

\* the callback wrapped by unstable_cache
CachedBody(params, e, response, t) ==
    LET sel == Selected(params, e)
        a == IF sel = "none" THEN Throw("No calendar source provided - skip caching")
             ELSE Adapter(sel, response)
    IN  IF a.threw THEN a
        ELSE IF a.null THEN Throw("Empty or invalid data - skip caching")
        ELSE Return([events |-> FilterWeek(a.value, t),
                     startDate |-> getWeekBounds(t).timeMin])

fetchCalendarDataNoCache(params, e, response, t) ==
    LET sel == Selected(params, e)
        a == IF sel = "none" THEN ReturnNull ELSE Adapter(sel, response)
    IN  IF a.threw THEN a
        ELSE IF a.null
             THEN Return([events |-> <<>>, startDate |-> ToISOString(t)])
        ELSE Return([events |-> FilterWeek(a.value, t),
                     startDate |-> getWeekBounds(t).timeMin])

\* revalidate: 300 (seconds)
Revalidate == 300

NoEntry == [present |-> FALSE]

\* the variant that compares the age in ms with the TTL in seconds
FreshWrongUnit(entry, t) == entry.present /\ t - entry.storedAt <= Revalidate

\* unstable_cache: an entry is served while its age does not exceed revalidate
Fresh(entry, t) == entry.present /\ t - entry.storedAt <= Revalidate * MsPerSecond

-----------------------------------------------------------------------------
(* Inputs                                                                  *)

MaxCalls == 2
MaxTicks == 2
MaxBlocks == 3
MaxWeekDay == 8

Callers == {"c1", "c2"}

\* getData(params): undefined, or an object with some of its fields set
NoParams == [undefined |-> TRUE]

ParamChoices ==
    {NoParams, [icalUrl |-> FeedUrl, apiKey |-> ApiKey]}

\* process.env: GOOGLE_CALENDAR_ICAL_URL and GOOGLE_CALENDAR_API_KEY
Envs ==
    {[icalUrl |-> None, apiKey |-> None],
     [icalUrl |-> "", apiKey |-> ApiKey]}

\* VEVENT blocks of a feed; dtstart and dtend hold the line after the name
Standup ==
    [uid |-> "a1", summary |-> "Standup",
     dtstart |-> ":20240205T090000", dtend |-> ":20240205T100000Z"]
Holiday ==
    [uid |-> None, summary |-> None, dtstart |-> ":20240207", dtend |-> ":20240208 "]
Offsite ==
    [uid |-> "a3", summary |-> "Offsite",
     dtstart |-> ";VALUE=DATE:20240206", dtend |-> ";VALUE=DATE:20240207"]
Review ==
    [uid |-> None, summary |-> "Review",
     dtstart |-> ";TZID=Europe/Berlin:20240212T090000",
     dtend |-> ";TZID=Europe/Berlin:20240212T093000"]
NoStart ==
    [uid |-> "m1", summary |-> "No start", dtstart |-> None, dtend |-> ":20240206"]
NoEnd ==
    [uid |-> None, summary |-> None, dtstart |-> ":20240206T120000", dtend |-> None]
NoDates ==
    [uid |-> "m3", summary |-> "Moved, DTSTART:tbd", dtstart |-> None, dtend |-> None]

\* a block whose DTEND lies an hour before its DTSTART
Backwards ==
    [uid |-> "a4", summary |-> "Backwards",
     dtstart |-> ":20240208T150000", dtend |-> ":20240208T140000"]

WellFormedBlocks == {Standup, Holiday, Offsite, Review, Backwards}
MalformedBlocks == {NoStart, NoEnd, NoDates}
Blocks == WellFormedBlocks \cup MalformedBlocks

RECURSIVE SeqsUpTo(_, _)
\* the sequences over S of length at most n
SeqsUpTo(S, n) ==
    IF n = 0 THEN {<<>>}
    ELSE LET shorter == SeqsUpTo(S, n - 1) IN
         shorter \cup {Append(q, x) : q \in shorter, x \in S}

FailureKinds == {"status", "network", "abort"}

\* what the feed URL may answer; blocks is kept beside the body it renders to
FeedResponses ==
    {[kind |-> "ok", blocks |-> bs] : bs \in SeqsUpTo(Blocks, MaxBlocks)}
    \cup {[kind |-> k, blocks |-> <<>>] : k \in FailureKinds}

FeedResponse(f) == [kind |-> f.kind, body |-> RenderFeed(f.blocks)]

\* an event of the week before
Kickoff ==
    [uid |-> "a0", summary |-> "Kickoff",
     dtstart |-> ":20240130T150000", dtend |-> ":20240130T160000"]

\* what the feed URL answers to getData: the empty feed, a feed with events of
\* last week, this week and next Monday, or a failure
ICalResponses ==
    {FeedResponse([kind |-> "ok", blocks |-> bs]) :
        bs \in {<<>>, <<Kickoff, Standup, Holiday, Review>>}}
    \cup {[kind |-> k, body |-> ""] : k \in FailureKinds}

Timed(id, summary, from, to) ==
    [id |-> id, summary |-> summary,
     start |-> [dateTime |-> from, date |-> None],
     end |-> [dateTime |-> to, date |-> None]]

Lunch == Timed("g1", "Lunch", "2024-02-08T12:00:00Z", "2024-02-08T13:00:00Z")
Retro == Timed("g2", None, "2024-02-12T00:00:00Z", "2024-02-12T01:00:00Z")
Planning == Timed("g0", "Planning", "2024-02-04T23:00:00Z", "2024-02-05T00:30:00Z")
Leave ==
    [id |-> "g3", summary |-> "Leave",
     start |-> [dateTime |-> None, date |-> "2024-02-09"],
     end |-> [dateTime |-> None, date |-> "2024-02-10"]]
Broken == [id |-> "g4", summary |-> "Broken"]

\* what the events-list endpoint may answer
ApiResponses ==
    {[kind |-> "ok", data |-> [items |-> items]] :
        items \in {<<>>, <<Planning, Lunch, Leave, Retro>>, <<Lunch, Broken>>}}
    \cup {[kind |-> "ok", data |-> [kind |-> "calendar#events"]]}
    \cup {[kind |-> k] : k \in FailureKinds \cup {"badjson"}}

NoResponse == [kind |-> "none"]

\* the answers the selected source may give
Upstream(sel) ==
    IF sel = "ical" THEN ICalResponses
    ELSE IF sel = "api" THEN ApiResponses
    ELSE {NoResponse}

\* Wednesday 2024-02-07 12:00:00.000
MainStarts == {6 * MsPerDay + 12 * MsPerHour}

\* the clock advances by two thirds of the TTL: an entry is fresh one step
\* after it was stored and stale two steps after
TickStep == (2 * Revalidate * MsPerSecond) \div 3

-----------------------------------------------------------------------------
(* getData as callers run it: lookup, cached callback, fallback            *)

NoResult == [pending |-> TRUE]
NotCalled == [called |-> FALSE]
NoFeed == [kind |-> "none", blocks |-> <<>>]

\* GoogleCalendar's default props, and nothing rendered yet
NoProps == [events |-> <<>>, startDate |-> None]
NotRendered == [rendered |-> FALSE]

LayoutIdle == props = NoProps /\ placed = NotRendered

\* no request has reached the route handler
NoRequest == [arrived |-> FALSE]
NotResponded == [responded |-> FALSE]

RouteIdle == request = NoRequest /\ served = NotResponded

Idle ==
    /\ cache = [s \in ParamChoices |-> NoEntry]
    /\ pc = [p \in Callers |-> "idle"]
    /\ req = [p \in Callers |-> NoParams]
    /\ result = [p \in Callers |-> NoResult]
    /\ invoked = [p \in Callers |-> <<>>]
    /\ calls = 0
    /\ ticks = 0

Init ==
    /\ now \in MainStarts
    /\ env \in Envs
    /\ Idle
    /\ wb = NotCalled
    /\ feed = NoFeed
    /\ icalEvents = NotCalled
    /\ LayoutIdle
    /\ RouteIdle

\* the record of an adapter invocation: which adapter, and what it returned
Invocation(sel, response) ==
    IF sel = "none" THEN <<>>
    ELSE <<[adapter |-> sel, completion |-> Adapter(sel, response)]>>

\* getData(params) up to the cache lookup of unstable_cache: a fresh entry is
\* returned, otherwise the callback is to run
Call(p, params) ==
    /\ pc[p] = "idle"
    /\ calls < MaxCalls
    /\ calls' = calls + 1
    /\ req' = [req EXCEPT ![p] = params]
    /\ invoked' = [invoked EXCEPT ![p] = <<>>]
    /\ IF Fresh(cache[params], now)
       THEN /\ result' = [result EXCEPT ![p] = Return(cache[params].value)]
            /\ pc' = [pc EXCEPT ![p] = "done"]
       ELSE /\ result' = [result EXCEPT ![p] = NoResult]
            /\ pc' = [pc EXCEPT ![p] = "cached"]
    /\ UNCHANGED <<now, env, cache, ticks, wb, feed, icalEvents, layoutVars, routeVars>>

\* the callback completes: its value is stored and returned, or it throws and
\* getData's catch turns to the fallback
RunCached(p) ==
    /\ pc[p] = "cached"
    /\ \E response \in Upstream(Selected(req[p], env)) :
          LET c == CachedBody(req[p], env, response, now) IN
          /\ invoked' = [invoked EXCEPT
                ![p] = @ \o Invocation(Selected(req[p], env), response)]
          /\ IF c.threw
             THEN /\ pc' = [pc EXCEPT ![p] = "fallback"]
                  /\ UNCHANGED <<cache, result>>
             ELSE /\ cache' = [cache EXCEPT
                        ![req[p]] = [present |-> TRUE, value |-> c.value, storedAt |-> now]]
                  /\ result' = [result EXCEPT ![p] = c]
                  /\ pc' = [pc EXCEPT ![p] = "done"]
    /\ UNCHANGED <<now, env, req, calls, ticks, wb, feed, icalEvents, layoutVars, routeVars>>

\* return fetchCalendarDataNoCache(params)
RunFallback(p) ==
    /\ pc[p] = "fallback"
    /\ \E response \in Upstream(Selected(req[p], env)) :
          LET c == fetchCalendarDataNoCache(req[p], env, response, now) IN
          /\ invoked' = [invoked EXCEPT
                ![p] = @ \o Invocation(Selected(req[p], env), response)]
          /\ result' = [result EXCEPT ![p] = c]
          /\ pc' = [pc EXCEPT ![p] = IF c.threw THEN "threw" ELSE "done"]
    /\ UNCHANGED <<now, env, cache, req, calls, ticks, wb, feed, icalEvents,
                   layoutVars, routeVars>>

\* the caller takes the outcome of its call
Finish(p) ==
    /\ pc[p] \in {"done", "threw"}
    /\ pc' = [pc EXCEPT ![p] = "idle"]
    /\ req' = [req EXCEPT ![p] = NoParams]
    /\ result' = [result EXCEPT ![p] = NoResult]
    /\ invoked' = [invoked EXCEPT ![p] = <<>>]
    /\ UNCHANGED <<now, env, cache, calls, ticks, wb, feed, icalEvents, layoutVars, routeVars>>

\* time passes
Tick ==
    /\ ticks < MaxTicks
    /\ ticks' = ticks + 1
    /\ now' = now + TickStep
    /\ UNCHANGED <<env, cache, pc, req, result, invoked, calls, wb, feed, icalEvents,
                   layoutVars, routeVars>>

Next ==
    \/ \E p \in Callers, params \in ParamChoices : Call(p, params)
    \/ \E p \in Callers : RunCached(p)
    \/ \E p \in Callers : RunFallback(p)
    \/ \E p \in Callers : Finish(p)
    \/ Tick

Spec == Init /\ [][Next]_vars

-----------------------------------------------------------------------------
(* getWeekBounds called on its own, at every instant of a range of days    *)

\* times of day: midnight, 1 ms later, 12:30:15.250, and the last ms
TimesOfDay ==
    {0, 1, 12 * MsPerHour + 30 * MsPerMinute + 15 * MsPerSecond + 250, MsPerDay - 1}

\* 2024-01-24 .. 2024-02-09 for MaxWeekDay = 8: every weekday, and the week
\* of Monday 2024-01-29 that crosses into February
WeekNows == {d * MsPerDay + tod : d \in (0 - MaxWeekDay)..MaxWeekDay, tod \in TimesOfDay}

WeekInit ==
    /\ now \in WeekNows
    /\ env = [icalUrl |-> None, apiKey |-> None]
    /\ Idle
    /\ wb = NotCalled
    /\ feed = NoFeed
    /\ icalEvents = NotCalled
    /\ LayoutIdle
    /\ RouteIdle

CallGetWeekBounds ==
    /\ wb' = [called |-> TRUE, at |-> now, bounds |-> getWeekBounds(now)]
    /\ UNCHANGED <<now, env, cache, pc, req, result, invoked, calls, ticks, feed, icalEvents,
                   layoutVars, routeVars>>

\* the clock moves on to a later instant
WeekTick ==
    /\ \E t \in WeekNows : t > now /\ now' = t
    /\ wb' = NotCalled
    /\ UNCHANGED <<env, cache, pc, req, result, invoked, calls, ticks, feed, icalEvents,
                   layoutVars, routeVars>>

WeekNext == CallGetWeekBounds \/ WeekTick

SpecWeek == WeekInit /\ [][WeekNext]_vars

-----------------------------------------------------------------------------
(* fetchICalEvents called on its own, on every feed of up to MaxBlocks     *)
(* blocks                                                                  *)

ICalInit ==
    /\ now \in MainStarts
    /\ env = [icalUrl |-> FeedUrl, apiKey |-> None]
    /\ Idle
    /\ wb = NotCalled
    /\ feed \in FeedResponses
    /\ icalEvents = NotCalled
    /\ LayoutIdle
    /\ RouteIdle

FetchICal ==
    /\ ~icalEvents.called
    /\ icalEvents' = [called |-> TRUE, completion |-> fetchICalEvents(FeedResponse(feed))]
    /\ UNCHANGED <<now, env, cache, pc, req, result, invoked, calls, ticks, wb, feed,
                   layoutVars, routeVars>>

\* before the next fetch the calendar gains an event, or the feed URL starts
\* or stops failing
NextFeed ==
    /\ icalEvents.called
    /\ \/ /\ feed.kind = "ok" /\ Len(feed.blocks) < MaxBlocks
          /\ \E b \in Blocks : feed' = [feed EXCEPT !.blocks = Append(@, b)]
       \/ \E k \in FailureKinds \cup {"ok"} : feed' = [kind |-> k, blocks |-> <<>>]
    /\ icalEvents' = NotCalled
    /\ UNCHANGED <<now, env, cache, pc, req, result, invoked, calls, ticks, wb,
                   layoutVars, routeVars>>

ICalNext == FetchICal \/ NextFeed

SpecICal == ICalInit /\ [][ICalNext]_vars

-----------------------------------------------------------------------------
(* GoogleCalendar (google-calendar.tsx): the weekly grid the events are    *)
(* laid out on.  A number is Num(n) or NaN.                                *)

Num(n) == [nan |-> FALSE, n |-> n]
NaN == [nan |-> TRUE]

\* a - b, a * b and Math.max(a, b): NaN as soon as an operand is NaN
Minus(a, b) == IF a.nan \/ b.nan THEN NaN ELSE Num(a.n - b.n)
Times(a, b) == IF a.nan \/ b.nan THEN NaN ELSE Num(a.n * b.n)
MathMax(a, b) == IF a.nan \/ b.nan THEN NaN ELSE Num(IF a.n >= b.n THEN a.n ELSE b.n)

\* getHours() and getMinutes() of a Date object: NaN for Invalid Date
DateHours(d) == IF d.valid THEN Num(GetHours(d.time)) ELSE NaN
DateMinutes(d) == IF d.valid THEN Num(GetMinutes(d.time)) ELSE NaN

\* getWeekStart(date), at instant t
getWeekStart(date, t) ==
    LET d == IF date \notin {None, ""} THEN DateParse(date) ELSE ValidDate(t) IN
    IF ~d.valid THEN InvalidDate
    ELSE LET day == GetDay(d.time)
             diff == GetDate(d.time) - day + (IF day = 0 THEN -6 ELSE 1)
         IN  ValidDate(SetDate(d.time, diff))

\* Array.from({ length: 7 }, ...): the days of the week, weekDays[i + 1] for i
weekDays(weekStart) ==
    [k \in 1..7 |->
        IF ~weekStart.valid THEN InvalidDate
        ELSE ValidDate(SetDate(weekStart.time, GetDate(weekStart.time) + (k - 1)))]

\* for (hour = 7; hour <= 20; hour++) for (minute = 0; minute < 60; minute += 30)
timeSlots ==
    [k \in 1..((20 - 7 + 1) * 2) |->
        [hour |-> 7 + ((k - 1) \div 2), minute |-> 30 * ((k - 1) % 2)]]

\* dateString.match(/^\d{4}-\d{2}-\d{2}$/) for a string of length 10
IsDateOnly(s) ==
    /\ AllDigits(SubSeq(s, 1, 4)) /\ Ch(s, 5) = "-"
    /\ AllDigits(SubSeq(s, 6, 7)) /\ Ch(s, 8) = "-"
    /\ AllDigits(SubSeq(s, 9, 10))

\* new Date(year, month - 1, day), local midnight, for the days of the model
LocalDate(year, month, day) ==
    IF year = ModelYear /\ month \in 1..3 /\ day \in 1..MonthLength(month)
    THEN ValidDate((MonthStartOf(month) + day - 1) * MsPerDay)
    ELSE InvalidDate

parseEventDate(dateString) ==
    IF Len(dateString) = 10 /\ IsDateOnly(dateString)
    THEN LocalDate(ToNum(SubSeq(dateString, 1, 4)), ToNum(SubSeq(dateString, 6, 7)),
                   ToNum(SubSeq(dateString, 9, 10)))
    ELSE DateParse(dateString)

\* getFullYear, getMonth and getDate agree; never so for an Invalid Date
isSameDay(date1, date2) ==
    /\ date1.valid /\ date2.valid
    /\ MonthOf(DayOf(date1.time)) = MonthOf(DayOf(date2.time))
    /\ GetDate(date1.time) = GetDate(date2.time)

getEventsForDay(events, date) ==
    LET OnDay(event) == isSameDay(parseEventDate(event.start), date)
    IN  SelectSeq(events, OnDay)

getAllDayEvents(events, date) ==
    LET AllDay(event) == event.allDay IN SelectSeq(getEventsForDay(events, date), AllDay)

getTimedEvents(events, date) ==
    LET Timed_(event) == ~event.allDay IN SelectSeq(getEventsForDay(events, date), Timed_)

\* (hour - 7) * 2 + (minute >= 30 ? 1 : 0)
SlotOffset(hour, minute) ==
    IF hour.nan THEN NaN
    ELSE Num((hour.n - 7) * 2 + (IF ~minute.nan /\ minute.n >= 30 THEN 1 ELSE 0))

getEventStyle(event) ==
    LET start == parseEventDate(event.start)
        end == parseEventDate(event.end)
        startOffset == SlotOffset(DateHours(start), DateMinutes(start))
        endOffset == SlotOffset(DateHours(end), DateMinutes(end))
    IN  [top |-> startOffset, height |-> MathMax(Num(1), Minus(endOffset, startOffset))]

rowHeight == 20

\* the box drawn for a timed event in its day column
EventBox(event) ==
    LET style == getEventStyle(event) IN
    [event |-> event,
     style |-> style,
     top |-> Times(style.top, Num(rowHeight)),
     height |-> Times(style.height, Num(rowHeight))]

\* the day columns of the time grid, each with the boxes of its timed events
\* and the titles of its all-day row
GoogleCalendar(p, t) ==
    LET days == weekDays(getWeekStart(p.startDate, t)) IN
    [k \in 1..7 |->
        LET timedEvents == getTimedEvents(p.events, days[k])
            allDayEvents == getAllDayEvents(p.events, days[k])
        IN  [height |-> Len(timeSlots) * rowHeight,
             allDay |-> [j \in 1..Len(allDayEvents) |-> allDayEvents[j].title],
             boxes |-> [j \in 1..Len(timedEvents) |-> EventBox(timedEvents[j])]]]

\* the events getData hands to the component: timed events of Wednesday
\* 2024-02-07 by start and end time of day, an event whose end is the empty
\* string (an API item whose end has neither dateTime nor date), an all-day
\* event, and the event of next Monday that the week filter lets through
MaxShown == 2

StartTimes == {"06:30:00", "09:00:00", "09:30:00", "20:30:00", "23:59:00"}
EndTimes == {"09:00:00", "09:29:00", "10:00:00", "21:00:00"}

ShownEvent(from, to) ==
    [id |-> "e-" \o from \o "-" \o to, title |-> "Event",
     start |-> "2024-02-07T" \o from,
     end |-> IF to = "" THEN "" ELSE "2024-02-07T" \o to,
     allDay |-> FALSE]

ShownEvents ==
    {ShownEvent(from, to) : from \in StartTimes, to \in EndTimes \cup {""}}
    \cup {MapItem(Leave), MapItem(Retro)}

PropsChoices(t) ==
    {[events |-> es, startDate |-> getWeekBounds(t).timeMin] :
        es \in SeqsUpTo(ShownEvents, MaxShown)}

GridInit ==
    /\ now \in MainStarts
    /\ env = [icalUrl |-> None, apiKey |-> ApiKey]
    /\ Idle
    /\ wb = NotCalled
    /\ feed = NoFeed
    /\ icalEvents = NotCalled
    /\ props \in PropsChoices(now)
    /\ FilterWeek(props.events, now) = props.events
    /\ placed = NotRendered
    /\ RouteIdle

\* the component renders its props
Render ==
    /\ ~placed.rendered
    /\ placed' = [rendered |-> TRUE, columns |-> GoogleCalendar(props, now)]
    /\ UNCHANGED <<now, env, cache, pc, req, result, invoked, calls, ticks, wb, feed,
                   icalEvents, props, routeVars>>

\* the next getData result gains an event, or has none
NextProps ==
    /\ placed.rendered
    /\ \/ /\ Len(props.events) < MaxShown
          /\ \E e \in ShownEvents : props' = [props EXCEPT !.events = Append(@, e)]
       \/ props' = [props EXCEPT !.events = <<>>]
    /\ placed' = NotRendered
    /\ UNCHANGED <<now, env, cache, pc, req, result, invoked, calls, ticks, wb, feed,
                   icalEvents, routeVars>>

GridNext == Render \/ NextProps

SpecGrid == GridInit /\ [][GridNext]_vars

-----------------------------------------------------------------------------
(* The GET route handler: the image of a recipe in the format the path     *)
(* asks for.  buildRecipeElement and renderRecipeOutputs are imported;     *)
(* what they do for a call is one of RenderOutcomes.                       *)

EndsWith(s, suffix) ==
    Len(s) >= Len(suffix) /\ SubSeq(s, Len(s) - Len(suffix) + 1, Len(s)) = suffix

RECURSIVE Join(_, _)
\* slug.join(sep)
Join(slug, sep) ==
    IF Len(slug) = 0 THEN ""
    ELSE IF Len(slug) = 1 THEN slug[1]
    ELSE slug[1] \o sep \o Join(Tail(slug), sep)

\* bitmapPath.replace(/\.(bmp|png)$/, "")
StripExtension(path) ==
    IF EndsWith(path, ".bmp") \/ EndsWith(path, ".png")
    THEN SubSeq(path, 1, Len(path) - 4)
    ELSE path

\* parseInt(s, 10) for a string without sign or leading blanks: the number
\* of its leading digits, NaN when it has none
ParseInt(s) ==
    LET stops == {i \in 1..Len(s) : ~IsDigit(Ch(s, i))}
        n == IF stops = {} THEN Len(s) ELSE Least(stops) - 1
    IN  IF n = 0 THEN NaN ELSE Num(ToNum(SubSeq(s, 1, n)))

\* param ? parseInt(param, 10) : otherwise
ParamOr(param, otherwise) ==
    IF param \notin {None, ""} THEN ParseInt(param) ELSE Num(otherwise)

\* value > 0 ? value : otherwise
PositiveOr(value, otherwise) ==
    IF ~value.nan /\ value.n > 0 THEN value.n ELSE otherwise

\* the keys of screens.json
Screens == {"google-calendar"}

\* DEFAULT_IMAGE_WIDTH and DEFAULT_IMAGE_HEIGHT of the renderer: a landscape
\* or a portrait panel
DefaultSizes == {[width |-> 800, height |-> 480], [width |-> 480, height |-> 800]}

\* what a call of the renderer does: it yields the buffer of the format asked
\* for, yields no buffer for it, or throws
RenderOutcomes == {"rendered", "nothing", "throws"}

EmptyBuffer == [empty |-> TRUE]

\* the bytes renderRecipeOutputs produces for one format
Encoded(format, slug, width, height, grayscale, rotate) ==
    [empty |-> FALSE, encoding |-> IF format = "png" THEN "png" ELSE "bmp",
     slug |-> slug, width |-> width, height |-> height,
     grayscale |-> grayscale, rotate |-> rotate]

\* new Response(new Uint8Array(buffer), { headers }); Content-Length is the
\* length of the body
ImageResponse(buffer, contentType) ==
    [responded |-> TRUE, status |-> 200, contentType |-> contentType, body |-> buffer]

ErrorResponse ==
    [responded |-> TRUE, status |-> 500, contentType |-> "text/plain",
     body |-> [empty |-> FALSE, encoding |-> "text", text |-> "Error generating image"]]

\* (format === "png" ? renders.png : renders.bitmap) ?? Buffer.from([])
renderRecipeImage(recipeId, width, height, grayscaleLevels, format, rotate, outcome) ==
    IF outcome = "throws" THEN Throw("render")
    ELSE IF outcome = "nothing" THEN Return(EmptyBuffer)
    ELSE Return(Encoded(format, recipeId, width, height, grayscaleLevels, rotate))

renderFallbackImage(format, contentType, slug, default, outcome) ==
    IF outcome = "rendered"
    THEN ImageResponse(Encoded(format, slug, default.width, default.height, Num(2), Num(0)),
                       contentType)
    ELSE ErrorResponse

\* the handler, for a request, the renderer's defaults and what the renderer
\* does in the recipe render and in the fallback render
GetResponse(r, default, outcome, fallbackOutcome) ==
    LET slug == IF r.slug = <<>> THEN <<"not-found">> ELSE r.slug
        bitmapPath == Join(slug, "/")
        isPng == EndsWith(bitmapPath, ".png")
        format == IF isPng THEN "png" ELSE "bitmap"
        contentType == IF isPng THEN "image/png" ELSE "image/bmp"
        recipeSlug == StripExtension(bitmapPath)
        width == ParamOr(r.width, default.width)
        height == ParamOr(r.height, default.height)
        validWidth == PositiveOr(width, default.width)
        validHeight == PositiveOr(height, default.height)
        grayscaleLevels == ParamOr(r.grayscale, 2)
        autoRotate == IF validWidth > validHeight THEN 90 ELSE 0
        rotateAngle == ParamOr(r.rotate, autoRotate)
        recipeId == IF recipeSlug \in Screens THEN recipeSlug ELSE "simple-text"
        recipeBuffer == renderRecipeImage(recipeId, validWidth, validHeight,
                                          grayscaleLevels, format, rotateAngle, outcome)
    IN  IF recipeBuffer.threw
        THEN renderFallbackImage("bitmap", "image/bmp", "Error occurred", default,
                                 fallbackOutcome)
        ELSE IF recipeBuffer.value.empty
             THEN renderFallbackImage(format, contentType, "not-found", default,
                                      fallbackOutcome)
        ELSE ImageResponse(recipeBuffer.value, contentType)

\* requests: the segments of the path after the route, and the query
MaxSegments == 2

Segments == {"recipes", "google-calendar", "google-calendar.png", "clock.bmp", "clock.png"}

Requests ==
    {[arrived |-> TRUE, slug |-> slug, width |-> w, height |-> h,
      grayscale |-> g, rotate |-> rot] :
        slug \in SeqsUpTo(Segments, MaxSegments),
        w \in {None, "800", "abc"}, h \in {None, "600"},
        g \in {None, "4"}, rot \in {None, "180"}}

RouteInit ==
    /\ now \in MainStarts
    /\ env = [icalUrl |-> None, apiKey |-> None]
    /\ Idle
    /\ wb = NotCalled
    /\ feed = NoFeed
    /\ icalEvents = NotCalled
    /\ LayoutIdle
    /\ request \in Requests
    /\ served = NotResponded

\* export async function GET(req, { params })
GET ==
    /\ request.arrived
    /\ ~served.responded
    /\ \E default \in DefaultSizes, outcome \in RenderOutcomes,
          fallbackOutcome \in RenderOutcomes :
          served' = GetResponse(request, default, outcome, fallbackOutcome)
    /\ UNCHANGED <<now, env, cache, pc, req, result, invoked, calls, ticks, wb, feed,
                   icalEvents, layoutVars, request>>

\* the next request arrives: another path, or the same path with another query
NextRequest ==
    /\ served.responded
    /\ request' \in Requests
    /\ request'.slug = request.slug \/ [request' EXCEPT !.slug = request.slug] = request
    /\ served' = NotResponded
    /\ UNCHANGED <<now, env, cache, pc, req, result, invoked, calls, ticks, wb, feed,
                   icalEvents, layoutVars>>

RouteNext == GET \/ NextRequest

SpecRoute == RouteInit /\ [][RouteNext]_vars

-----------------------------------------------------------------------------
(* Properties                                                              *)

Last(q) == q[Len(q)]

Present(x) == x \notin {None, ""}

\* caller p leaves the given position of getData in this step
Leaves(p, at) == pc[p] = at /\ pc'[p] # at

\* the adapter returned null in the invocation caller p has just made
JustFailed(p) ==
    /\ Len(invoked'[p]) = Len(invoked[p]) + 1
    /\ Last(invoked'[p]).completion.null

Ttl == Revalidate * MsPerSecond

WeekLength == 7 * MsPerDay

\* C1: when no source is configured, or the selected adapter fails (a failed
\* status, a network error and a render abort all come back as null), the
\* cached callback throws and the cache is left as it was; a later call that
\* finds no entry runs the callback, which invokes the adapter again.
C1_FailureNotCached ==
    [][\A p \in Callers :
        /\ Leaves(p, "cached") =>
              /\ (Selected(req[p], env) # "none") =>
                    /\ Len(invoked'[p]) = Len(invoked[p]) + 1
                    /\ \A r \in Upstream(Selected(req[p], env)) :
                          r.kind \in FailureKinds =>
                              Adapter(Selected(req[p], env), r) = ReturnNull
              /\ (Selected(req[p], env) = "none" \/ JustFailed(p)) =>
                    /\ pc'[p] = "fallback"
                    /\ cache' = cache
        /\ (Leaves(p, "idle") /\ ~cache[req'[p]].present) => pc'[p] = "cached"
      ]_vars

\* a caller is in the fallback after its feed fetch failed, and its signature
\* has no cache entry
C1_Witness ==
    \E p \in Callers :
        /\ pc[p] = "fallback"
        /\ Len(invoked[p]) = 1
        /\ invoked[p][1].adapter = "ical"
        /\ invoked[p][1].completion.null
        /\ ~cache[req[p]].present

\* C2: no cache entry ever holds an empty events list.
C2_NoEmptyEntry ==
    \A s \in ParamChoices : cache[s].present => cache[s].value.events # <<>>

EventFields == {"id", "title", "start", "end", "allDay"}

\* C3: getData never throws; what it returns is {events, startDate} with
\* events a list of events and startDate a valid timestamp not after now; when
\* the fallback's adapter gave nothing, events is empty.
C3_NeverThrows ==
    \A p \in Callers :
        /\ pc[p] # "threw"
        /\ pc[p] = "done" =>
              /\ ~result[p].threw
              /\ DOMAIN result[p].value = {"events", "startDate"}
              /\ \A i \in 1..Len(result[p].value.events) :
                    DOMAIN result[p].value.events[i] = EventFields
              /\ DateParse(result[p].value.startDate).valid
              /\ DateParse(result[p].value.startDate).time <= now
              /\ (Len(invoked[p]) = 2 /\ invoked[p][2].completion.null) =>
                    result[p].value.events = <<>>

\* a call has returned the empty result after the API adapter failed in the
\* cached callback and again in the fallback
C3_Witness ==
    \E p \in Callers :
        /\ pc[p] = "done"
        /\ Len(invoked[p]) = 2
        /\ invoked[p][1].adapter = "api" /\ invoked[p][1].completion.null
        /\ invoked[p][2].completion.null
        /\ result[p].value.events = <<>>

\* C4 as stated: once an entry exists for a signature, every call with that
\* signature within the TTL returns that same value: while the entry is
\* younger than the TTL its value does not change, and a call that starts then
\* is served from it without an adapter.
C4_EntryFixedWithinTtl ==
    [][/\ \A s \in ParamChoices :
            (cache[s].present /\ now' - cache[s].storedAt < Ttl) =>
                cache'[s].value = cache[s].value
       /\ \A p \in Callers :
            (/\ Leaves(p, "idle")
             /\ cache[req'[p]].present
             /\ now - cache[req'[p]].storedAt < Ttl)
            => /\ result'[p] = Return(cache[req'[p]].value)
               /\ invoked'[p] = <<>>
      ]_vars

\* C4, amended: a call that starts while an entry younger than the TTL exists
\* for its signature returns that entry's value, invokes no adapter and leaves
\* the cache as it is; and an entry changes only when a call with the entry's
\* own signature completes its cached callback.
C4_LookupServedFromEntry ==
    [][/\ \A p \in Callers :
            (/\ Leaves(p, "idle")
             /\ cache[req'[p]].present
             /\ now - cache[req'[p]].storedAt < Ttl)
            => /\ pc'[p] = "done"
               /\ result'[p] = Return(cache[req'[p]].value)
               /\ invoked'[p] = <<>>
               /\ cache' = cache
       /\ \A s \in ParamChoices :
            cache'[s] # cache[s] =>
                \E p \in Callers : req[p] = s /\ Leaves(p, "cached") /\ pc'[p] = "done"
      ]_vars

\* a call was served from the cache, one clock step after the entry was stored
C4_Witness ==
    \E p \in Callers :
        /\ pc[p] = "done"
        /\ invoked[p] = <<>>
        /\ cache[req[p]].present
        /\ now > cache[req[p]].storedAt
        /\ result[p] = Return(cache[req[p]].value)

\* C5: the week start is a Monday at 00:00:00.000 (2024-01-29, three days
\* before the model's day 0, is a Monday), and now lies in the seven days
\* that start there.
C5_WeekStartIsMonday ==
    wb.called =>
        LET start == DateParse(wb.bounds.timeMin) IN
        /\ start.valid
        /\ (start.time + 3 * MsPerDay) % WeekLength = 0
        /\ start.time <= wb.at
        /\ wb.at < start.time + WeekLength

\* getWeekBounds was called on a Sunday whose Monday lies in the month before
C5_Witness ==
    /\ wb.called
    /\ GetDay(wb.at) = 0
    /\ MonthOf(DayOf(wb.at)) # MonthOf(DayOf(DateParse(wb.bounds.timeMin).time))

\* C6: the week window ends 1 ms before seven days after its start.
C6_WindowIsSevenDays ==
    wb.called =>
        DateParse(wb.bounds.timeMax).time
            = DateParse(wb.bounds.timeMin).time + WeekLength - 1

\* C7: every event getData returns starts inside the seven days that begin at
\* the returned week start.
C7_EventsInsideWeek ==
    \A p \in Callers :
        (pc[p] = "done" /\ ~result[p].threw) =>
            \A i \in 1..Len(result[p].value.events) :
                LET weekStart == DateParse(result[p].value.startDate).time
                    start == DateParse(result[p].value.events[i].start)
                IN  /\ start.valid
                    /\ weekStart <= start.time
                    /\ start.time < weekStart + WeekLength

WellFormed(b) == b.dtstart # None /\ b.dtend # None

\* the start value of a block: its DTSTART line after the parameters
StartValue(b) == Trim(StripToColon(b.dtstart))

\* the events fetchICalEvents has returned for the feed
Parsed == icalEvents.completion.value

\* C8: of a feed of well-formed blocks, the i-th event is all-day exactly
\* when the start value of the i-th block has 8 characters.
C8_AllDayIffDateValue ==
    (/\ icalEvents.called /\ feed.kind = "ok"
     /\ \A k \in 1..Len(feed.blocks) : WellFormed(feed.blocks[k]))
    => \A k \in 1..Len(feed.blocks) :
           Parsed[k].allDay = (Len(StartValue(feed.blocks[k])) = 8)

\* the precedence of the sources, read off the call's params and the env
ICalConfigured(p) ==
    Present(IF Present(Field(req[p], "icalUrl")) THEN req[p].icalUrl ELSE env.icalUrl)

KeyConfigured(p) ==
    Present(IF Present(Field(req[p], "apiKey")) THEN req[p].apiKey ELSE env.apiKey)

\* C9: each path of a call invokes the feed adapter exactly when an icalUrl
\* is configured, the API adapter exactly when only an apiKey is, and no
\* adapter when neither is: then the cached callback throws without touching
\* the cache and the fallback returns {events: [], startDate: now}.
C9_SourcePrecedence ==
    [][\A p \in Callers :
        (Leaves(p, "cached") \/ Leaves(p, "fallback")) =>
            IF ICalConfigured(p) \/ KeyConfigured(p)
            THEN /\ Len(invoked'[p]) = Len(invoked[p]) + 1
                 /\ SubSeq(invoked'[p], 1, Len(invoked[p])) = invoked[p]
                 /\ Last(invoked'[p]).adapter
                        = IF ICalConfigured(p) THEN "ical" ELSE "api"
            ELSE /\ invoked'[p] = <<>>
                 /\ cache' = cache
                 /\ Leaves(p, "cached") => pc'[p] = "fallback"
                 /\ Leaves(p, "fallback") =>
                        /\ pc'[p] = "done"
                        /\ result'[p] =
                              Return([events |-> <<>>, startDate |-> ToISOString(now)])
      ]_vars

\* a call that passed both an icalUrl and an apiKey has used the feed adapter
C9_Witness ==
    \E p \in Callers :
        /\ pc[p] = "done"
        /\ Present(Field(req[p], "icalUrl")) /\ Present(Field(req[p], "apiKey"))
        /\ Len(invoked[p]) = 1
        /\ invoked[p][1].adapter = "ical"

\* the events fetchICalEvents returns for a feed of the given blocks
EventsOf(bs) == fetchICalEvents(FeedResponse([kind |-> "ok", blocks |-> bs])).value

Replace(bs, k, b) == [bs EXCEPT ![k] = b]

Remove(bs, k) == SubSeq(bs, 1, k - 1) \o SubSeq(bs, k + 1, Len(bs))

Kept(bs) == SelectSeq(bs, WellFormed)

\* the same events, but for the ids synthesized for blocks without UID
SameButSynthesizedIds(es, fs, kept) ==
    /\ Len(es) = Len(fs)
    /\ \A j \in 1..Len(es) :
          /\ es[j].title = fs[j].title
          /\ es[j].start = fs[j].start
          /\ es[j].end = fs[j].end
          /\ es[j].allDay = fs[j].allDay
          /\ kept[j].uid # None => es[j].id = fs[j].id

C11_StartNotAfterEnd ==
    (icalEvents.called /\ feed.kind = "ok") =>
        \A k \in 1..Len(Parsed) :
            LET start == DateParse(Parsed[k].start)
                end == DateParse(Parsed[k].end)
            IN  (start.valid /\ end.valid) => start.time <= end.time

\* the boxes of all day columns
Boxes ==
    UNION {{placed.columns[k].boxes[j] : j \in 1..Len(placed.columns[k].boxes)} : k \in 1..7}

\* hour and minute of a time of day "HH:mm:ss"
HourOf(time) == ToNum(SubSeq(time, 1, 2))
MinuteOf(time) == ToNum(SubSeq(time, 4, 5))

\* the time of day of a timestamp "YYYY-MM-DDTHH:mm:ss"
ClockOf(stamp) == SubSeq(stamp, 12, 19)

\* the slot a time of day falls in, counted from 07:00 in half hours
SlotOf(time) == (HourOf(time) - 7) * 2 + (IF MinuteOf(time) >= 30 THEN 1 ELSE 0)

\* C12: every box of a timed event is placed at the slot of the event's start
\* time, and its height is the number of slots up to the slot of its end
\* time, but at least 1, whatever the event's end is; the event from 09:00 to
\* 10:00 is placed at offset 4 with height 2.
C12_HeightAtLeastOne ==
    placed.rendered =>
        \A b \in Boxes :
            /\ b.style.top = Num(SlotOf(ClockOf(b.event.start)))
            /\ ~b.style.height.nan
            /\ b.style.height.n >= 1
            /\ Len(b.event.end) >= 19 =>
                  LET span == SlotOf(ClockOf(b.event.end)) - SlotOf(ClockOf(b.event.start))
                  IN  b.style.height.n = IF span >= 1 THEN span ELSE 1
            /\ (ClockOf(b.event.start) = "09:00:00" /\ Len(b.event.end) >= 19
                /\ ClockOf(b.event.end) = "10:00:00") =>
                  b.style.top.n = 4 /\ b.style.height.n = 2

\* C14: every box of a day column lies inside the column: it starts at or
\* below the column's top and ends at or above the column's bottom, the end of
\* the 28 half-hour slots from 07:00.
C14_BoxInsideGrid ==
    placed.rendered =>
        /\ Len(timeSlots) = 28
        /\ \A k \in 1..7 :
              \A j \in 1..Len(placed.columns[k].boxes) :
                 LET b == placed.columns[k].boxes[j] IN
                 b.style.height.nan
                 \/ /\ 0 <= b.style.top.n
                    /\ b.style.top.n + b.style.height.n <= Len(timeSlots)
                    /\ 0 <= b.top.n
                    /\ b.top.n + b.height.n <= placed.columns[k].height

\* the path of the request being served
RequestedPath == Join(IF request.slug = <<>> THEN <<"not-found">> ELSE request.slug, "/")

\* C13: an image response has the content type and the encoding of the
\* format the path's extension asks for: PNG for .png, BMP otherwise.
C13_ImageMatchesRequestedFormat ==
    (served.responded /\ served.status = 200) =>
        IF EndsWith(RequestedPath, ".png")
        THEN served.contentType = "image/png" /\ served.body.encoding = "png"
        ELSE served.contentType = "image/bmp" /\ served.body.encoding = "bmp"

====
